---- MODULE Spec2Model ----
(***************************************************************************)
(* IMU telemetry packets: the CRC32 engine and the packet validator of     *)
(* ImuProt.h, driven by the packet feeder of ImuProtExample.c.             *)
(*                                                                         *)
(* A 32-bit unsigned value (uint32_t) is a pair <<hi, lo>> of its two      *)
(* 16-bit halves, value = hi * 65536 + lo.  A buffer is a function from    *)
(* byte offsets 0..n-1 to bytes 0..255.                                    *)
(***************************************************************************)
EXTENDS Integers, Sequences, FiniteSets, TLC

VARIABLES
    bigEndianHost,  \* byte order of the host the example was built for
    pc,             \* where the driver is: "main" or "printPacket"
    buffer,         \* parsePacket's local byte buffer
    result,         \* printPacket's result, the verdict of checkImuProtBuffer
    crc32,          \* printPacket's crc32, the checksum it computes itself
    prev,           \* history: buffer, result and crc32 of the call before
    imuBuffer,      \* printPacket's imuBuffer: the fields it reads for printing
    data,           \* CRC engine exercised alone: the bytes handed to protCRC32
    len,            \*   the length handed to protCRC32
    crcPc,          \*   "call" before the two builds ran, "done" after
    crcTable,       \*   what the table-driven build returned
    crcSoft,        \*   what the SOFT_CRC build returned
    crcResidue,     \*   protCRC32 of the bytes followed by their own checksum
    crcVerdict,     \*   checkImuProtBuffer of the bytes, when they are a packet
    celsius,        \* tempToKelvin exercised alone: its argument, in 1/1000 degree
    kelvin,         \*   what it returned
    tempPc          \*   "call" before it ran, "done" after

vars == <<bigEndianHost, pc, buffer, result, crc32, prev, imuBuffer,
          data, len, crcPc, crcTable, crcSoft, crcResidue, crcVerdict,
          celsius, kelvin, tempPc>>

driverVars == <<bigEndianHost, pc, buffer, result, crc32, prev, imuBuffer>>

crcVars == <<data, len, crcPc, crcTable, crcSoft, crcResidue, crcVerdict>>

tempVars == <<celsius, kelvin, tempPc>>

Byte == 0..255

uint32_t == (0..65535) \X (0..65535)

-----------------------------------------------------------------------------
(* C integer operators on 8, 16 and 32 bit unsigned values.                *)

\* a ^ b on 4-bit values, bit by bit
Xor4 ==
    [a \in 0..15 |-> [b \in 0..15 |->
        ((a + b) % 2)
        + 2 * (((a \div 2) + (b \div 2)) % 2)
        + 4 * (((a \div 4) + (b \div 4)) % 2)
        + 8 * (((a \div 8) + (b \div 8)) % 2)]]

Xor8(a, b) == Xor4[a % 16][b % 16] + 16 * Xor4[a \div 16][b \div 16]

Xor16(a, b) == Xor8(a % 256, b % 256) + 256 * Xor8(a \div 256, b \div 256)

\* x ^ y on uint32_t
Xor32(x, y) == <<Xor16(x[1], y[1]), Xor16(x[2], y[2])>>

\* a uint8_t promoted to a 32-bit value
FromByte(b) == <<0, b>>

\* x >> 1 on uint32_t
Shr1(x) == <<x[1] \div 2, (x[2] \div 2) + 32768 * (x[1] % 2)>>

\* variant: a shift by one bit
Shr8_OneBit(x) == <<x[1] \div 2, (x[2] \div 2) + 32768 * (x[1] % 2)>>

\* x >> 8 on uint32_t
Shr8(x) == <<x[1] \div 256, (x[2] \div 256) + 256 * (x[1] % 256)>>

\* x & 0xff on uint32_t, as an array index
Low8(x) == x[2] % 256

\* x & 1 on uint32_t
Low1(x) == x[2] % 2

\* faulty variant: the complement of the promoted int, not truncated to 8 bits
Not8_NoTruncate(b) == -b - 1

\* (uint8_t)~b: b is promoted to int, complemented (-b - 1), and truncated
Not8(b) == (-b - 1) % 256

-----------------------------------------------------------------------------
(* Protocol constants.                                                     *)

IMU_PROT_HEADER == \h9574

\* faulty variant: the running value starts (and is finally XORed) with zero
CRC32_INITIAL_Zero == <<0, 0>>

CRC32_INITIAL == <<\hFFFF, \hFFFF>>

CRC32_POLYNOM == <<\hEDB8, \h8320>>

CRC32_REMINDER == <<\h2144, \hDF1C>>

IMU_PROT_OK == 0

IMU_PROT_BAD_HEADER == 1

IMU_PROT_BAD_SEQUENCER == 2

IMU_PROT_BAD_CRC == 3

ImuProtError_t ==
    {IMU_PROT_OK, IMU_PROT_BAD_HEADER, IMU_PROT_BAD_SEQUENCER, IMU_PROT_BAD_CRC}

-----------------------------------------------------------------------------
(* CRC32 engine.                                                           *)

\* the SOFT_CRC build: 8 shift / conditional-XOR steps on the running value
RECURSIVE softBits(_, _)
softBits(crc, j) ==
    IF j < 8
    THEN softBits(IF Low1(crc) = 1
                  THEN Xor32(Shr1(crc), CRC32_POLYNOM)
                  ELSE Shr1(crc),
                  j + 1)
    ELSE crc

\* the outer loop; crc is evaluated (as a uint32_t) at every iteration
RECURSIVE softLoop(_, _, _, _)
softLoop(buff, n, i, crc) ==
    IF i < n /\ crc \in uint32_t
    THEN softLoop(buff, n, i + 1, softBits(Xor32(crc, FromByte(buff[i])), 0))
    ELSE crc

protCRC32_SOFT(buff, n) == Xor32(softLoop(buff, n, 0, CRC32_INITIAL), CRC32_INITIAL)

\* the table of ImuProt.h, entry k (from 0) at position k + 1
crc32_ccitt_table == <<
    <<\h0000, \h0000>>, <<\h7707, \h3096>>, <<\hEE0E, \h612C>>, <<\h9909, \h51BA>>, <<\h076D, \hC419>>,
    <<\h706A, \hF48F>>, <<\hE963, \hA535>>, <<\h9E64, \h95A3>>, <<\h0EDB, \h8832>>, <<\h79DC, \hB8A4>>,
    <<\hE0D5, \hE91E>>, <<\h97D2, \hD988>>, <<\h09B6, \h4C2B>>, <<\h7EB1, \h7CBD>>, <<\hE7B8, \h2D07>>,
    <<\h90BF, \h1D91>>, <<\h1DB7, \h1064>>, <<\h6AB0, \h20F2>>, <<\hF3B9, \h7148>>, <<\h84BE, \h41DE>>,
    <<\h1ADA, \hD47D>>, <<\h6DDD, \hE4EB>>, <<\hF4D4, \hB551>>, <<\h83D3, \h85C7>>, <<\h136C, \h9856>>,
    <<\h646B, \hA8C0>>, <<\hFD62, \hF97A>>, <<\h8A65, \hC9EC>>, <<\h1401, \h5C4F>>, <<\h6306, \h6CD9>>,
    <<\hFA0F, \h3D63>>, <<\h8D08, \h0DF5>>, <<\h3B6E, \h20C8>>, <<\h4C69, \h105E>>, <<\hD560, \h41E4>>,
    <<\hA267, \h7172>>, <<\h3C03, \hE4D1>>, <<\h4B04, \hD447>>, <<\hD20D, \h85FD>>, <<\hA50A, \hB56B>>,
    <<\h35B5, \hA8FA>>, <<\h42B2, \h986C>>, <<\hDBBB, \hC9D6>>, <<\hACBC, \hF940>>, <<\h32D8, \h6CE3>>,
    <<\h45DF, \h5C75>>, <<\hDCD6, \h0DCF>>, <<\hABD1, \h3D59>>, <<\h26D9, \h30AC>>, <<\h51DE, \h003A>>,
    <<\hC8D7, \h5180>>, <<\hBFD0, \h6116>>, <<\h21B4, \hF4B5>>, <<\h56B3, \hC423>>, <<\hCFBA, \h9599>>,
    <<\hB8BD, \hA50F>>, <<\h2802, \hB89E>>, <<\h5F05, \h8808>>, <<\hC60C, \hD9B2>>, <<\hB10B, \hE924>>,
    <<\h2F6F, \h7C87>>, <<\h5868, \h4C11>>, <<\hC161, \h1DAB>>, <<\hB666, \h2D3D>>, <<\h76DC, \h4190>>,
    <<\h01DB, \h7106>>, <<\h98D2, \h20BC>>, <<\hEFD5, \h102A>>, <<\h71B1, \h8589>>, <<\h06B6, \hB51F>>,
    <<\h9FBF, \hE4A5>>, <<\hE8B8, \hD433>>, <<\h7807, \hC9A2>>, <<\h0F00, \hF934>>, <<\h9609, \hA88E>>,
    <<\hE10E, \h9818>>, <<\h7F6A, \h0DBB>>, <<\h086D, \h3D2D>>, <<\h9164, \h6C97>>, <<\hE663, \h5C01>>,
    <<\h6B6B, \h51F4>>, <<\h1C6C, \h6162>>, <<\h8565, \h30D8>>, <<\hF262, \h004E>>, <<\h6C06, \h95ED>>,
    <<\h1B01, \hA57B>>, <<\h8208, \hF4C1>>, <<\hF50F, \hC457>>, <<\h65B0, \hD9C6>>, <<\h12B7, \hE950>>,
    <<\h8BBE, \hB8EA>>, <<\hFCB9, \h887C>>, <<\h62DD, \h1DDF>>, <<\h15DA, \h2D49>>, <<\h8CD3, \h7CF3>>,
    <<\hFBD4, \h4C65>>, <<\h4DB2, \h6158>>, <<\h3AB5, \h51CE>>, <<\hA3BC, \h0074>>, <<\hD4BB, \h30E2>>,
    <<\h4ADF, \hA541>>, <<\h3DD8, \h95D7>>, <<\hA4D1, \hC46D>>, <<\hD3D6, \hF4FB>>, <<\h4369, \hE96A>>,
    <<\h346E, \hD9FC>>, <<\hAD67, \h8846>>, <<\hDA60, \hB8D0>>, <<\h4404, \h2D73>>, <<\h3303, \h1DE5>>,
    <<\hAA0A, \h4C5F>>, <<\hDD0D, \h7CC9>>, <<\h5005, \h713C>>, <<\h2702, \h41AA>>, <<\hBE0B, \h1010>>,
    <<\hC90C, \h2086>>, <<\h5768, \hB525>>, <<\h206F, \h85B3>>, <<\hB966, \hD409>>, <<\hCE61, \hE49F>>,
    <<\h5EDE, \hF90E>>, <<\h29D9, \hC998>>, <<\hB0D0, \h9822>>, <<\hC7D7, \hA8B4>>, <<\h59B3, \h3D17>>,
    <<\h2EB4, \h0D81>>, <<\hB7BD, \h5C3B>>, <<\hC0BA, \h6CAD>>, <<\hEDB8, \h8320>>, <<\h9ABF, \hB3B6>>,
    <<\h03B6, \hE20C>>, <<\h74B1, \hD29A>>, <<\hEAD5, \h4739>>, <<\h9DD2, \h77AF>>, <<\h04DB, \h2615>>,
    <<\h73DC, \h1683>>, <<\hE363, \h0B12>>, <<\h9464, \h3B84>>, <<\h0D6D, \h6A3E>>, <<\h7A6A, \h5AA8>>,
    <<\hE40E, \hCF0B>>, <<\h9309, \hFF9D>>, <<\h0A00, \hAE27>>, <<\h7D07, \h9EB1>>, <<\hF00F, \h9344>>,
    <<\h8708, \hA3D2>>, <<\h1E01, \hF268>>, <<\h6906, \hC2FE>>, <<\hF762, \h575D>>, <<\h8065, \h67CB>>,
    <<\h196C, \h3671>>, <<\h6E6B, \h06E7>>, <<\hFED4, \h1B76>>, <<\h89D3, \h2BE0>>, <<\h10DA, \h7A5A>>,
    <<\h67DD, \h4ACC>>, <<\hF9B9, \hDF6F>>, <<\h8EBE, \hEFF9>>, <<\h17B7, \hBE43>>, <<\h60B0, \h8ED5>>,
    <<\hD6D6, \hA3E8>>, <<\hA1D1, \h937E>>, <<\h38D8, \hC2C4>>, <<\h4FDF, \hF252>>, <<\hD1BB, \h67F1>>,
    <<\hA6BC, \h5767>>, <<\h3FB5, \h06DD>>, <<\h48B2, \h364B>>, <<\hD80D, \h2BDA>>, <<\hAF0A, \h1B4C>>,
    <<\h3603, \h4AF6>>, <<\h4104, \h7A60>>, <<\hDF60, \hEFC3>>, <<\hA867, \hDF55>>, <<\h316E, \h8EEF>>,
    <<\h4669, \hBE79>>, <<\hCB61, \hB38C>>, <<\hBC66, \h831A>>, <<\h256F, \hD2A0>>, <<\h5268, \hE236>>,
    <<\hCC0C, \h7795>>, <<\hBB0B, \h4703>>, <<\h2202, \h16B9>>, <<\h5505, \h262F>>, <<\hC5BA, \h3BBE>>,
    <<\hB2BD, \h0B28>>, <<\h2BB4, \h5A92>>, <<\h5CB3, \h6A04>>, <<\hC2D7, \hFFA7>>, <<\hB5D0, \hCF31>>,
    <<\h2CD9, \h9E8B>>, <<\h5BDE, \hAE1D>>, <<\h9B64, \hC2B0>>, <<\hEC63, \hF226>>, <<\h756A, \hA39C>>,
    <<\h026D, \h930A>>, <<\h9C09, \h06A9>>, <<\hEB0E, \h363F>>, <<\h7207, \h6785>>, <<\h0500, \h5713>>,
    <<\h95BF, \h4A82>>, <<\hE2B8, \h7A14>>, <<\h7BB1, \h2BAE>>, <<\h0CB6, \h1B38>>, <<\h92D2, \h8E9B>>,
    <<\hE5D5, \hBE0D>>, <<\h7CDC, \hEFB7>>, <<\h0BDB, \hDF21>>, <<\h86D3, \hD2D4>>, <<\hF1D4, \hE242>>,
    <<\h68DD, \hB3F8>>, <<\h1FDA, \h836E>>, <<\h81BE, \h16CD>>, <<\hF6B9, \h265B>>, <<\h6FB0, \h77E1>>,
    <<\h18B7, \h4777>>, <<\h8808, \h5AE6>>, <<\hFF0F, \h6A70>>, <<\h6606, \h3BCA>>, <<\h1101, \h0B5C>>,
    <<\h8F65, \h9EFF>>, <<\hF862, \hAE69>>, <<\h616B, \hFFD3>>, <<\h166C, \hCF45>>, <<\hA00A, \hE278>>,
    <<\hD70D, \hD2EE>>, <<\h4E04, \h8354>>, <<\h3903, \hB3C2>>, <<\hA767, \h2661>>, <<\hD060, \h16F7>>,
    <<\h4969, \h474D>>, <<\h3E6E, \h77DB>>, <<\hAED1, \h6A4A>>, <<\hD9D6, \h5ADC>>, <<\h40DF, \h0B66>>,
    <<\h37D8, \h3BF0>>, <<\hA9BC, \hAE53>>, <<\hDEBB, \h9EC5>>, <<\h47B2, \hCF7F>>, <<\h30B5, \hFFE9>>,
    <<\hBDBD, \hF21C>>, <<\hCABA, \hC28A>>, <<\h53B3, \h9330>>, <<\h24B4, \hA3A6>>, <<\hBAD0, \h3605>>,
    <<\hCDD7, \h0693>>, <<\h54DE, \h5729>>, <<\h23D9, \h67BF>>, <<\hB366, \h7A2E>>, <<\hC461, \h4AB8>>,
    <<\h5D68, \h1B02>>, <<\h2A6F, \h2B94>>, <<\hB40B, \hBE37>>, <<\hC30C, \h8EA1>>, <<\h5A05, \hDF1B>>,
    <<\h2D02, \hEF8D>>
>>

\* faulty variant: the table indexed by the data byte alone
RECURSIVE tableLoop_IndexByByte(_, _, _, _)
tableLoop_IndexByByte(buff, n, i, crc) ==
    IF i < n /\ crc \in uint32_t
    THEN tableLoop_IndexByByte(buff, n, i + 1,
                               Xor32(crc32_ccitt_table[buff[i] + 1], Shr8(crc)))
    ELSE crc

\* the loop; crc is evaluated (as a uint32_t) at every iteration
RECURSIVE tableLoop(_, _, _, _)
tableLoop(buff, n, i, crc) ==
    IF i < n /\ crc \in uint32_t
    THEN tableLoop(buff, n, i + 1,
                   Xor32(crc32_ccitt_table[Low8(Xor32(crc, FromByte(buff[i]))) + 1],
                         Shr8(crc)))
    ELSE crc

\* faulty variant: the final XOR forgotten
protCRC32_NoFinalXor(buff, n) == tableLoop(buff, n, 0, CRC32_INITIAL)

\* the default build
protCRC32(buff, n) == Xor32(tableLoop(buff, n, 0, CRC32_INITIAL), CRC32_INITIAL)

-----------------------------------------------------------------------------
(* Packet layout: ImuData_t and ImuProt_t, tightly packed.                 *)

sizeof_uint32_t == 4

\* mux, flags, temperature, gyro[3], accl[3]
sizeof_ImuData_t == 4 + 2 + 2 + 3 * 4 + 3 * 4

\* header, sequencer, ff_sequencer, data, crc32
sizeof_ImuProt_t == 2 + 1 + 1 + sizeof_ImuData_t + sizeof_uint32_t

off_header == 0

off_sequencer == 2

off_ff_sequencer == 3

off_data == 4

off_crc32 == off_data + sizeof_ImuData_t

\* a uint16_t member read through the struct pointer: host byte order
LoadU16(buf, off, be) ==
    IF be
    THEN 256 * buf[off] + buf[off + 1]
    ELSE buf[off] + 256 * buf[off + 1]

\* a uint32_t member read through the struct pointer: host byte order
LoadU32(buf, off, be) ==
    IF be
    THEN <<256 * buf[off] + buf[off + 1], 256 * buf[off + 2] + buf[off + 3]>>
    ELSE <<buf[off + 2] + 256 * buf[off + 3], buf[off] + 256 * buf[off + 1]>>

\* a uint32_t bit pattern read as int32_t (two's complement)
ToInt32(w) == (IF w[1] >= 32768 THEN w[1] - 65536 ELSE w[1]) * 65536 + w[2]

\* an int32_t member read through the struct pointer
LoadI32(buf, off, be) == ToInt32(LoadU32(buf, off, be))

\* faulty variant: accl declared before gyro
ImuData_t_AcclFirst(buf, off, be) ==
    [mux         |-> LoadU32(buf, off, be),
     flags       |-> LoadU16(buf, off + 4, be),
     temperature |-> LoadU16(buf, off + 4 + 2, be),
     accl        |-> [k \in 0..2 |-> LoadI32(buf, off + 4 + 2 + 2 + 4 * k, be)],
     gyro        |-> [k \in 0..2 |-> LoadI32(buf, off + 4 + 2 + 2 + 3 * 4 + 4 * k, be)]]

\* the ImuData_t that starts at offset off of buf, member after member
ImuData_t(buf, off, be) ==
    [mux         |-> LoadU32(buf, off, be),
     flags       |-> LoadU16(buf, off + 4, be),
     temperature |-> LoadU16(buf, off + 4 + 2, be),
     gyro        |-> [k \in 0..2 |-> LoadI32(buf, off + 4 + 2 + 2 + 4 * k, be)],
     accl        |-> [k \in 0..2 |-> LoadI32(buf, off + 4 + 2 + 2 + 3 * 4 + 4 * k, be)]]

\* the ImuProt_t that buf is cast to
ImuProt_t(buf, be) ==
    [header       |-> LoadU16(buf, off_header, be),
     sequencer    |-> buf[off_sequencer],
     ff_sequencer |-> buf[off_ff_sequencer],
     data         |-> ImuData_t(buf, off_data, be),
     crc32        |-> LoadU32(buf, off_crc32, be)]

-----------------------------------------------------------------------------
(* Packet validator.                                                       *)

\* faulty variant: the sequencer pair checked before the header
checkImuProtBuffer_SequencerFirst(buf, be) ==
    IF buf[off_sequencer] # Not8(buf[off_ff_sequencer])
    THEN IMU_PROT_BAD_SEQUENCER
    ELSE IF IMU_PROT_HEADER # LoadU16(buf, off_header, be)
         THEN IMU_PROT_BAD_HEADER
         ELSE IF protCRC32(buf, sizeof_ImuProt_t - sizeof_uint32_t)
                    # LoadU32(buf, off_crc32, be)
              THEN IMU_PROT_BAD_CRC
              ELSE IMU_PROT_OK

\* faulty variant: the CRC checked before the sequencer pair
checkImuProtBuffer_CrcBeforeSequencer(buf, be) ==
    IF IMU_PROT_HEADER # LoadU16(buf, off_header, be)
    THEN IMU_PROT_BAD_HEADER
    ELSE IF protCRC32(buf, sizeof_ImuProt_t - sizeof_uint32_t)
               # LoadU32(buf, off_crc32, be)
         THEN IMU_PROT_BAD_CRC
         ELSE IF buf[off_sequencer] # Not8(buf[off_ff_sequencer])
              THEN IMU_PROT_BAD_SEQUENCER
              ELSE IMU_PROT_OK

\* faulty variant: only the low 16 bits of the two checksums compared
checkImuProtBuffer_CrcLowHalf(buf, be) ==
    IF IMU_PROT_HEADER # LoadU16(buf, off_header, be)
    THEN IMU_PROT_BAD_HEADER
    ELSE IF buf[off_sequencer] # Not8(buf[off_ff_sequencer])
         THEN IMU_PROT_BAD_SEQUENCER
         ELSE IF protCRC32(buf, sizeof_ImuProt_t - sizeof_uint32_t)[2]
                    # LoadU32(buf, off_crc32, be)[2]
              THEN IMU_PROT_BAD_CRC
              ELSE IMU_PROT_OK

\* faulty variant: the checksum taken over the whole packet, CRC field included
checkImuProtBuffer_CrcOverWholePacket(buf, be) ==
    IF IMU_PROT_HEADER # LoadU16(buf, off_header, be)
    THEN IMU_PROT_BAD_HEADER
    ELSE IF buf[off_sequencer] # Not8(buf[off_ff_sequencer])
         THEN IMU_PROT_BAD_SEQUENCER
         ELSE IF protCRC32(buf, sizeof_ImuProt_t) # LoadU32(buf, off_crc32, be)
              THEN IMU_PROT_BAD_CRC
              ELSE IMU_PROT_OK

\* variant: only the low byte of the header is compared
checkImuProtBuffer_HeaderLowByte(buf, be) ==
    IF IMU_PROT_HEADER % 256 # LoadU16(buf, off_header, be) % 256
    THEN IMU_PROT_BAD_HEADER
    ELSE LET sequencer == Not8(buf[off_ff_sequencer])
         IN  IF buf[off_sequencer] # sequencer
             THEN IMU_PROT_BAD_SEQUENCER
             ELSE IF protCRC32(buf, sizeof_ImuProt_t - sizeof_uint32_t)
                        # LoadU32(buf, off_crc32, be)
                  THEN IMU_PROT_BAD_CRC
                  ELSE IMU_PROT_OK

checkImuProtBuffer(buf, be) ==
    IF IMU_PROT_HEADER # LoadU16(buf, off_header, be)
    THEN IMU_PROT_BAD_HEADER
    ELSE LET sequencer == Not8(buf[off_ff_sequencer])
         IN  IF buf[off_sequencer] # sequencer
             THEN IMU_PROT_BAD_SEQUENCER
             ELSE IF protCRC32(buf, sizeof_ImuProt_t - sizeof_uint32_t)
                        # LoadU32(buf, off_crc32, be)
                  THEN IMU_PROT_BAD_CRC
                  ELSE IMU_PROT_OK

-----------------------------------------------------------------------------
(* Example driver: hex text to bytes, then validate and print.             *)

\* strtol(.., 16) on one hex digit
HexDigit ==
    [c \in {"0", "1", "2", "3", "4", "5", "6", "7", "8", "9",
            "A", "B", "C", "D", "E", "F", "a", "b", "c", "d", "e", "f"} |->
        CASE c = "0" -> 0  [] c = "1" -> 1  [] c = "2" -> 2  [] c = "3" -> 3
          [] c = "4" -> 4  [] c = "5" -> 5  [] c = "6" -> 6  [] c = "7" -> 7
          [] c = "8" -> 8  [] c = "9" -> 9
          [] c \in {"A", "a"} -> 10  [] c \in {"B", "b"} -> 11
          [] c \in {"C", "c"} -> 12  [] c \in {"D", "d"} -> 13
          [] c \in {"E", "e"} -> 14  [] c \in {"F", "f"} -> 15]

\* byteArray after the conversion loop: the first strlen / 2 bytes are written,
\* the rest of the array keeps what it held
hexStringToByteArray(hexString, byteArray) ==
    LET byteArrayLen == Len(hexString) \div 2
    IN  [i \in DOMAIN byteArray |->
            IF i < byteArrayLen
            THEN (16 * HexDigit[SubSeq(hexString, 2 * i + 1, 2 * i + 1)]
                     + HexDigit[SubSeq(hexString, 2 * i + 2, 2 * i + 2)]) % 256
            ELSE byteArray[i]]

\* the seven packets main feeds, in its order
MainPackets == <<
    "74951EE10000000000008179CAF6FFFF85FCFFFFC801000079ECFFFFDCE3FFFFF9C30900BA11DF0F",
    "74951FE00000000000007F79AFFEFFFFCFF4FFFFEAFBFFFF36F1FFFFC5E3FFFFA8C30900C14BE115",
    "749520DF3F03000000007F79F2F6FFFFD7EEFFFF13F6FFFF82EFFFFF5AE6FFFF01C90900022D0189",
    "749522DD0000000000007F7912EFFFFF99F4FFFFFEF9FFFFBFEAFFFFAADCFFFFB5CA0900C8E47F2F",
    "749422DD0000000000007F7912EFFFFF99F4FFFFFEF9FFFFBFEAFFFFAADCFFFFB5CA0900C8E47F2F",
    "749522CD0000000000007F7912EFFFFF99F4FFFFFEF9FFFFBFEAFFFFAADCFFFFB5CA0900C8E47F2F",
    "749522DD0000100000007F7912EFFFFF99F4FFFFFEF9FFFFBFEAFFFFAADCFFFFB5CA0900C8E47F2F">>

\* Further packets fed to the driver.  Each carries, in its last four bytes, the
\* CRC32 of its own first 36 bytes (least significant byte first, except the last).
\* wrong header, consistent sequencer pair
PacketBadHeaderGoodCrc ==
    "749422DD0000000000007F7912EFFFFF99F4FFFFFEF9FFFFBFEAFFFFAADCFFFFB5CA090000F3E1E0"

\* right header, inconsistent sequencer pair
PacketBadSequencerGoodCrc ==
    "749522CD0000000000007F7912EFFFFF99F4FFFFFEF9FFFFBFEAFFFFAADCFFFFB5CA09007AE7B4F6"

\* wrong header and inconsistent sequencer pair
PacketBadHeaderBadSequencerGoodCrc ==
    "749422CD0000000000007F7912EFFFFF99F4FFFFFEF9FFFFBFEAFFFFAADCFFFFB5CA0900B2F02A39"

\* sequencer 0x21, every status flag set
PacketAllFlags ==
    "749521DE00000000FFFF7F7912EFFFFF99F4FFFFFEF9FFFFBFEAFFFFAADCFFFFB5CA090001907644"

\* header and CRC stored most significant byte first
PacketBigEndian ==
    "957422DD0000000000007F7912EFFFFF99F4FFFFFEF9FFFFBFEAFFFFAADCFFFFB5CA09005167DC1A"

CraftedPackets ==
    {PacketBadHeaderGoodCrc, PacketBadSequencerGoodCrc,
     PacketBadHeaderBadSequencerGoodCrc, PacketAllFlags, PacketBigEndian}

\* the hex digit with its lowest bit flipped, as in main's three broken packets
FlipDigit ==
    [c \in {"0", "1", "2", "3", "4", "5", "6", "7", "8", "9",
            "A", "B", "C", "D", "E", "F"} |->
        CASE c = "0" -> "1"  [] c = "1" -> "0"  [] c = "2" -> "3"  [] c = "3" -> "2"
          [] c = "4" -> "5"  [] c = "5" -> "4"  [] c = "6" -> "7"  [] c = "7" -> "6"
          [] c = "8" -> "9"  [] c = "9" -> "8"  [] c = "A" -> "B"  [] c = "B" -> "A"
          [] c = "C" -> "D"  [] c = "D" -> "C"  [] c = "E" -> "F"  [] c = "F" -> "E"]

\* hex with digit p (from 1) corrupted
Corrupt(hex, p) ==
    SubSeq(hex, 1, p - 1) \o FlipDigit[SubSeq(hex, p, p)] \o SubSeq(hex, p + 1, Len(hex))

\* digits corrupted: header, sequencer, ff_sequencer, mux, flags, temperature,
\* gyro, accl, the last byte under the CRC (offset 35), the CRC field's two ends
CorruptPositions == {4, 6, 7, 13, 18, 22, 25, 50, 72, 73, 80}

CorruptBases == {MainPackets[1], MainPackets[3]}

Inputs ==
    {MainPackets[k] : k \in DOMAIN MainPackets}
        \cup CraftedPackets
        \cup {Corrupt(h, p) : h \in CorruptBases, p \in CorruptPositions}

\* parsePacket's buffer is larger than a packet (256 bytes in the example)
BufferSize == 44

\* what the buffer's never-written bytes may hold
Garbage == {0, 255}

\* printPacket has not run yet: a value that is no ImuProtError_t
NoResult == IMU_PROT_OK - 1

NoWord == <<0, 0>>

NoPrev == [buffer |-> <<>>, result |-> NoResult, crc32 |-> NoWord]

\* parsePacket, up to its call of printPacket
parsePacket(packetHex, garbage) ==
    /\ pc = "main"
    /\ buffer' = hexStringToByteArray(packetHex, [i \in 0..(BufferSize - 1) |-> garbage])
    /\ prev' = IF result = NoResult
               THEN NoPrev
               ELSE [buffer |-> buffer, result |-> result, crc32 |-> crc32]
    /\ pc' = "printPacket"
    /\ UNCHANGED <<bigEndianHost, result, crc32, imuBuffer, crcVars, tempVars>>

\* faulty variant: a packet whose sequencer does not follow the one before is refused
printPacket_SequenceTracking ==
    /\ pc = "printPacket"
    /\ result' = IF /\ prev.result # NoResult
                    /\ buffer[off_sequencer] # (prev.buffer[off_sequencer] + 1) % 256
                 THEN IMU_PROT_BAD_SEQUENCER
                 ELSE checkImuProtBuffer(buffer, bigEndianHost)
    /\ crc32' = protCRC32(buffer, sizeof_ImuProt_t - 4)
    /\ imuBuffer' = ImuProt_t(buffer, bigEndianHost)
    /\ pc' = "main"
    /\ UNCHANGED <<bigEndianHost, buffer, prev, crcVars, tempVars>>

\* printPacket: validate, compute the checksum again for display, print
printPacket ==
    /\ pc = "printPacket"
    /\ result' = checkImuProtBuffer(buffer, bigEndianHost)
    /\ crc32' = protCRC32(buffer, sizeof_ImuProt_t - 4)
    /\ imuBuffer' = ImuProt_t(buffer, bigEndianHost)
    /\ pc' = "main"
    /\ UNCHANGED <<bigEndianHost, buffer, prev, crcVars, tempVars>>

-----------------------------------------------------------------------------
(* The CRC engine exercised alone, both builds on the same bytes.          *)

MaxLen == 3

CrcBytes == {0, 1, 128, 255}

\* ASCII "123456789"
CheckString == [i \in 0..8 |-> 49 + i]

Size(buff) == Cardinality(DOMAIN buff)

CrcInputs ==
    UNION {[0..(n - 1) -> CrcBytes] : n \in 0..MaxLen}
        \cup {[i \in 0..0 |-> b] : b \in Byte}
        \cup {CheckString}
        \cup {hexStringToByteArray(MainPackets[k], [i \in 0..(sizeof_ImuProt_t - 1) |-> 0]) :
                k \in DOMAIN MainPackets}

CallProtCRC32 ==
    /\ crcPc = "call"
    /\ crcTable' = protCRC32(data, len)
    /\ crcSoft' = protCRC32_SOFT(data, len)
    /\ crcPc' = "done"
    /\ UNCHANGED <<data, len, crcResidue, crcVerdict, driverVars, tempVars>>

\* the four bytes of a uint32_t in memory, least significant first
StoreU32(w) == <<w[2] % 256, w[2] \div 256, w[1] % 256, w[1] \div 256>>

\* bytes 0..(n - 1) of buff followed by crc, stored as ImuProt_t.crc32 is read
Sealed(buff, n, crc) ==
    [i \in 0..(n + sizeof_uint32_t - 1) |->
        IF i < n THEN buff[i] ELSE StoreU32(crc)[i - n + 1]]

\* the packets of the example, as bytes
PacketInputs ==
    {hexStringToByteArray(h, [i \in 0..(sizeof_ImuProt_t - 1) |-> 0]) : h \in Inputs}

\* protCRC32 over the bytes and the checksum just computed for them, and
\* checkImuProtBuffer when the bytes are a whole packet
CallOnSealed ==
    /\ crcPc = "done"
    /\ crcResidue' = protCRC32(Sealed(data, len, crcTable), len + sizeof_uint32_t)
    /\ crcVerdict' = IF Size(data) = sizeof_ImuProt_t
                     THEN checkImuProtBuffer(data, bigEndianHost)
                     ELSE NoResult
    /\ crcPc' = "sealed"
    /\ UNCHANGED <<data, len, crcTable, crcSoft, driverVars, tempVars>>

-----------------------------------------------------------------------------
(* Transmission errors: a packet that validated arrives again with one bit   *)
(* wrong, as main's three broken packets do.                                 *)

\* the packet with bit n wrong; bit n is bit n % 8 of byte n \div 8
FlipBit(buf, n) == [buf EXCEPT ![n \div 8] = Xor8(@, 2 ^ (n % 8))]

\* two hex digits for one byte, as the packets are written in main
HexOfByte(b) ==
    LET digits == "0123456789ABCDEF"
    IN  SubSeq(digits, (b \div 16) + 1, (b \div 16) + 1)
            \o SubSeq(digits, (b % 16) + 1, (b % 16) + 1)

RECURSIVE HexOf(_, _)
\* the hex text of bytes 0..(n - 1) of buf
HexOf(buf, n) ==
    IF n = 0 THEN "" ELSE HexOf(buf, n - 1) \o HexOfByte(buf[n - 1])

\* main's first call of parsePacket
parseFirst ==
    /\ result = NoResult
    /\ \E packetHex \in Inputs, garbage \in Garbage : parsePacket(packetHex, garbage)

\* a call of parsePacket with the packet just accepted, one bit wrong
parseFlipped ==
    /\ result = IMU_PROT_OK
    /\ \E n \in 0..(8 * sizeof_ImuProt_t - 1), garbage \in Garbage :
            parsePacket(HexOf(FlipBit(buffer, n), sizeof_ImuProt_t), garbage)

-----------------------------------------------------------------------------
(* Temperature conversion, exercised alone.  A float is modelled exactly: a  *)
(* Celsius argument c is the integer 1000 * c, a centi-Kelvin value the      *)
(* integer 10 * value.                                                       *)

\* KELVIN, in 1/1000 degree
KELVIN == 273150

\* (uint16_t)c of a float c >= 0 given as tenths: the fraction is discarded; a
\* value that does not fit uint16_t makes the conversion undefined, and builds
\* return the value's low 16 bits, zero or 0xFFFF
CastUint16(tenths) ==
    IF tenths \div 10 <= 65535
    THEN {tenths \div 10}
    ELSE {(tenths \div 10) % 65536, 0, 65535}

\* the values tempToKelvin(c) can return
tempToKelvin(c) ==
    LET c1 == c + KELVIN            \* c += KELVIN, in 1/1000 Kelvin
        c2 == c1                    \* c *= 100: the same number, now tenths of centi-Kelvin
        c3 == c2 + 5                \* c += 0.5
        c4 == IF c3 < 0 THEN 0 ELSE c3
    IN  CastUint16(c4)

\* half-width, in 1/1000 degree, of the three windows of arguments tried
TempSpan == 15

\* arguments: around absolute zero, around 25 degrees, around the largest
\* argument whose result fits 16 bits, and a few far ones
TempInputs ==
    {-KELVIN + d : d \in (-TempSpan)..TempSpan}
        \cup {25000 + d : d \in (-TempSpan)..TempSpan}
        \cup {382200 + d : d \in (-TempSpan)..TempSpan}
        \cup {-400000, -50000, 0, 150000, 400000, 1000000}

CallTempToKelvin ==
    /\ tempPc = "call"
    /\ \E k \in tempToKelvin(celsius) : kelvin' = k
    /\ tempPc' = "done"
    /\ UNCHANGED <<celsius, driverVars, crcVars>>

-----------------------------------------------------------------------------
(* Specifications.                                                         *)

DriverIdle ==
    /\ pc = "main"
    /\ buffer = [i \in 0..(BufferSize - 1) |-> 0]
    /\ result = NoResult
    /\ crc32 = NoWord
    /\ prev = NoPrev
    /\ imuBuffer = <<>>

CrcIdle ==
    /\ data = <<>>
    /\ len = 0
    /\ crcPc = "idle"
    /\ crcTable = NoWord
    /\ crcSoft = NoWord
    /\ crcResidue = NoWord
    /\ crcVerdict = NoResult

TempIdle ==
    /\ celsius = 0
    /\ kelvin = 0
    /\ tempPc = "idle"

\* The driver on a little-endian host, the host of the packets main feeds: their
\* header bytes 74 95 read as 0x9574 only there.
Init ==
    /\ bigEndianHost = FALSE
    /\ DriverIdle
    /\ CrcIdle
    /\ TempIdle

Next ==
    \/ \E packetHex \in Inputs, garbage \in Garbage : parsePacket(packetHex, garbage)
    \/ printPacket

Spec == Init /\ [][Next]_vars

\* the driver on a host of either byte order
InitHosts ==
    /\ bigEndianHost \in BOOLEAN
    /\ DriverIdle
    /\ CrcIdle
    /\ TempIdle

SpecHosts == InitHosts /\ [][Next]_vars

\* the CRC engine alone
InitCrc ==
    /\ bigEndianHost = FALSE
    /\ DriverIdle
    /\ data \in CrcInputs
    /\ len \in 0..Size(data)
    /\ crcPc = "call"
    /\ crcTable = NoWord
    /\ crcSoft = NoWord
    /\ crcResidue = NoWord
    /\ crcVerdict = NoResult
    /\ TempIdle

NextCrc == CallProtCRC32

SpecCrc == InitCrc /\ [][NextCrc]_vars

\* the CRC engine applied to bytes, then to the bytes and their checksum
InitResidue ==
    /\ bigEndianHost = FALSE
    /\ DriverIdle
    /\ data \in CrcInputs \cup PacketInputs
    /\ len \in 0..Size(data)
    /\ crcPc = "call"
    /\ crcTable = NoWord
    /\ crcSoft = NoWord
    /\ crcResidue = NoWord
    /\ crcVerdict = NoResult
    /\ TempIdle

NextResidue ==
    \/ CallProtCRC32
    \/ CallOnSealed

SpecResidue == InitResidue /\ [][NextResidue]_vars

\* the driver fed a packet, then the same packet with one bit wrong
NextFlip ==
    \/ parseFirst
    \/ parseFlipped
    \/ printPacket

SpecFlip == Init /\ [][NextFlip]_vars

\* tempToKelvin alone
InitTemp ==
    /\ bigEndianHost = FALSE
    /\ DriverIdle
    /\ CrcIdle
    /\ celsius \in TempInputs
    /\ kelvin = 0
    /\ tempPc = "call"

NextTemp == CallTempToKelvin

SpecTemp == InitTemp /\ [][NextTemp]_vars

-----------------------------------------------------------------------------
(* The packet as the protocol describes it: 40 bytes, multi-byte fields     *)
(* least significant byte first.                                            *)

\* the 40 bytes of the packet held in buf
Packet(buf) == [i \in 0..39 |-> buf[i]]

WireHeader(buf) == buf[0] + 256 * buf[1]

WireHeaderOk(buf) == WireHeader(buf) = \h9574

\* sequencer (offset 2) is the 8-bit complement of sequencerComplement (offset 3)
WireSequencerOk(buf) == buf[2] = 255 - buf[3]

\* the 32-bit value at offsets 36..39
WireCrc(buf) == <<buf[38] + 256 * buf[39], buf[36] + 256 * buf[37]>>

\* the bytes of main's k-th packet
MainPacketBytes(k) == hexStringToByteArray(MainPackets[k], [i \in 0..39 |-> 0])

\* printPacket has returned: buffer holds the packet, result its verdict and
\* crc32 the CRC32 of its bytes 0..35
Validated == pc = "main" /\ result # NoResult

-----------------------------------------------------------------------------
(* Claims.                                                                 *)

\* C1: a packet whose header is not 0x9574 gets BAD_HEADER, whatever its
\* sequencer pair and its stored CRC are.
C1_BadHeader ==
    (Validated /\ ~WireHeaderOk(buffer)) => result = IMU_PROT_BAD_HEADER

\* C1 witness: a packet with a wrong header, a consistent sequencer pair and a
\* stored CRC equal to the CRC32 of its bytes 0..35 was refused as BAD_HEADER.
C1_Witness ==
    /\ Validated
    /\ ~WireHeaderOk(buffer)
    /\ WireSequencerOk(buffer)
    /\ WireCrc(buffer) = crc32
    /\ result = IMU_PROT_BAD_HEADER

\* C1, further cases reached: wrong header with an inconsistent sequencer pair
\* and a matching CRC; wrong header with a wrong CRC.
C1_CaseBadSequencer ==
    Validated /\ ~WireHeaderOk(buffer) /\ ~WireSequencerOk(buffer) /\ WireCrc(buffer) = crc32

C1_CaseBadCrc ==
    Validated /\ ~WireHeaderOk(buffer) /\ WireCrc(buffer) # crc32

\* C2: a packet with header 0x9574 whose sequencer is not the complement of its
\* sequencerComplement gets BAD_SEQUENCER, whether its stored CRC matches or not.
C2_BadSequencer ==
    (Validated /\ WireHeaderOk(buffer) /\ ~WireSequencerOk(buffer))
        => result = IMU_PROT_BAD_SEQUENCER

\* C2 witness: such a packet whose stored CRC matches was refused as BAD_SEQUENCER.
C2_Witness ==
    /\ Validated
    /\ WireHeaderOk(buffer)
    /\ ~WireSequencerOk(buffer)
    /\ WireCrc(buffer) = crc32
    /\ result = IMU_PROT_BAD_SEQUENCER

C2_CaseBadCrc ==
    Validated /\ WireHeaderOk(buffer) /\ ~WireSequencerOk(buffer) /\ WireCrc(buffer) # crc32

\* C3: a packet with header 0x9574 and a consistent sequencer pair whose stored
\* CRC differs from the CRC32 of its bytes 0..35 gets BAD_CRC.
C3_BadCrc ==
    (Validated /\ WireHeaderOk(buffer) /\ WireSequencerOk(buffer) /\ WireCrc(buffer) # crc32)
        => result = IMU_PROT_BAD_CRC

\* C3 witness: main's first packet with only its CRC field corrupted was refused
\* as BAD_CRC.
C3_Witness ==
    /\ Validated
    /\ \A i \in 0..35 : buffer[i] = MainPacketBytes(1)[i]
    /\ WireCrc(buffer) # crc32
    /\ result = IMU_PROT_BAD_CRC

\* C3, further case reached: the payload corrupted, the CRC field as sent.
C3_CasePayload ==
    /\ Validated
    /\ WireHeaderOk(buffer) /\ WireSequencerOk(buffer)
    /\ WireCrc(buffer) = WireCrc(MainPacketBytes(4))
    /\ Packet(buffer) # MainPacketBytes(4)

\* C4: the verdict is always one of the four, and it is OK exactly when the
\* header is 0x9574, the sequencer pair is consistent and the stored CRC is the
\* CRC32 of bytes 0..35; nothing else in the packet matters.
C4_OkIffAllThree ==
    Validated =>
        /\ result \in {0, 1, 2, 3}
        /\ result = IMU_PROT_OK <=>
               (WireHeaderOk(buffer) /\ WireSequencerOk(buffer) /\ WireCrc(buffer) = crc32)

\* C4 witness: a packet with every status flag set was accepted.
C4_Witness ==
    /\ Validated
    /\ buffer[8] = 255 /\ buffer[9] = 255
    /\ result = IMU_PROT_OK

\* C5: main's four intact packets validate as OK, the CRC32 of their first 36
\* bytes being the value in their last four (0x0FDF11BA for the first).
C5_SamplePacketsOk ==
    \A k \in 1..4 :
        (Validated /\ Packet(buffer) = MainPacketBytes(k)) =>
            /\ result = IMU_PROT_OK
            /\ crc32 = WireCrc(buffer)
            /\ k = 1 => crc32 = <<\h0FDF, \h11BA>>

\* C5 witness: the first packet was validated and accepted.
C5_Witness ==
    /\ Validated
    /\ Packet(buffer) = MainPacketBytes(1)
    /\ result = IMU_PROT_OK

\* C6: the table-driven and the bit-wise build return the same value on the same
\* bytes and length, and the table entry of every byte met is what 8 shift /
\* conditional-XOR steps make of that byte.
C6_BuildsAgree ==
    crcPc = "done" =>
        /\ crcTable = crcSoft
        /\ \A i \in 0..(len - 1) :
               crc32_ccitt_table[data[i] + 1] = softBits(FromByte(data[i]), 0)

\* C6 witness: both builds ran over the first 36 bytes of main's first packet.
C6_Witness ==
    /\ crcPc = "done"
    /\ data = MainPacketBytes(1)
    /\ len = 36
    /\ crcSoft = <<\h0FDF, \h11BA>>

\* C7: the CRC32 of "123456789" is 0xCBF43926 and that of no bytes is 0.
C7_CheckValues ==
    crcPc = "done" =>
        /\ (data = CheckString /\ len = 9) =>
               crcTable = <<\hCBF4, \h3926>> /\ crcSoft = <<\hCBF4, \h3926>>
        /\ len = 0 => crcTable = <<0, 0>> /\ crcSoft = <<0, 0>>

\* C7 witness: the checksum of "123456789" was computed.
C7_Witness ==
    crcPc = "done" /\ data = CheckString /\ len = 9 /\ crcTable = <<\hCBF4, \h3926>>

C7_CaseEmpty ==
    crcPc = "done" /\ len = 0 /\ Size(data) > 0

\* C8: the checksum compared is the CRC32 of bytes 0..35 and nothing else: a
\* packet past the header and sequencer checks is OK exactly when its bytes
\* 36..39 hold that value; two buffers equal on bytes 0..39 get the same verdict
\* whatever follows; two buffers equal on bytes 0..35 get the same checksum, and
\* two that differ in byte 35 alone do not.
C8_ChecksumRange ==
    Validated =>
        /\ result \in {IMU_PROT_OK, IMU_PROT_BAD_CRC} =>
               (result = IMU_PROT_OK <=> WireCrc(buffer) = crc32)
        /\ prev.result # NoResult =>
               /\ Packet(prev.buffer) = Packet(buffer) => result = prev.result
               /\ (\A i \in 0..35 : prev.buffer[i] = buffer[i]) => crc32 = prev.crc32
               /\ ((\A i \in 0..34 : prev.buffer[i] = buffer[i])
                       /\ prev.buffer[35] # buffer[35]) => crc32 # prev.crc32

\* C8 witness: the same accepted packet twice, in buffers whose bytes past the
\* packet differ.
C8_Witness ==
    /\ Validated
    /\ prev.result # NoResult
    /\ Packet(prev.buffer) = Packet(buffer)
    /\ prev.buffer[40] # buffer[40]
    /\ result = IMU_PROT_OK

C8_CaseCrcFieldOnly ==
    /\ Validated
    /\ prev.result # NoResult
    /\ \A i \in 0..35 : prev.buffer[i] = buffer[i]
    /\ \E i \in 36..39 : prev.buffer[i] # buffer[i]

C8_CaseLastByte ==
    /\ Validated
    /\ prev.result # NoResult
    /\ \A i \in 0..34 : prev.buffer[i] = buffer[i]
    /\ prev.buffer[35] # buffer[35]

\* C9: printPacket's validation leaves the buffer as it was, and its verdict does
\* not depend on the call before: the packet of the call before gets the same
\* verdict again, and a packet that is valid on its own is accepted whatever the
\* sequencer of the call before was.
C9_Stateless ==
    [][ /\ pc = "printPacket" => buffer' = buffer
        /\ (pc' = "main" /\ result' # NoResult /\ prev'.result # NoResult) =>
               /\ Packet(prev'.buffer) = Packet(buffer') => result' = prev'.result
               /\ (WireHeaderOk(buffer') /\ WireSequencerOk(buffer')
                       /\ WireCrc(buffer') = crc32') => result' = IMU_PROT_OK
      ]_vars

\* C9 witness: sequencer 0x20 accepted, then sequencer 0x22 accepted.
C9_Witness ==
    /\ Validated
    /\ prev.result = IMU_PROT_OK /\ prev.buffer[2] = 32
    /\ buffer[2] = 34 /\ result = IMU_PROT_OK

C9_CaseRepeat ==
    /\ Validated
    /\ prev.result = IMU_PROT_OK /\ prev.buffer[2] = buffer[2]
    /\ result = IMU_PROT_OK

C9_CaseBackwards ==
    /\ Validated
    /\ prev.result = IMU_PROT_OK /\ prev.buffer[2] > buffer[2]
    /\ result = IMU_PROT_OK

\* C10: on every host the header check passes exactly when byte 0 is 0x74 and
\* byte 1 is 0x95, and the stored CRC compared with the checksum is
\* byte36 + 256 * byte37 + 65536 * byte38 + 16777216 * byte39.
C10_WireOrderOnEveryHost ==
    Validated =>
        /\ result # IMU_PROT_BAD_HEADER <=> (buffer[0] = \h74 /\ buffer[1] = \h95)
        /\ result \in {IMU_PROT_OK, IMU_PROT_BAD_CRC} =>
               (result = IMU_PROT_OK <=> crc32 = WireCrc(buffer))

\* the 32-bit value at offsets off..off+3, least significant byte first, as a
\* two's-complement signed number
WireInt32(buf, off) ==
    buf[off] + 256 * buf[off + 1] + 65536 * buf[off + 2]
        + 16777216 * (IF buf[off + 3] >= 128 THEN buf[off + 3] - 256 ELSE buf[off + 3])

\* C11: the packet is 40 bytes without padding, and the fields printPacket reads
\* from any validated buffer, valid or not, are those at the protocol's offsets:
\* header 0..1, sequencer 2, sequencerComplement 3, identity word 4..7, status
\* flags 8..9, temperature 10..11 (unsigned), gyro 12..23 and accel 24..35
\* (signed 32-bit), crc 36..39; the first sample packet reads temperature 0x7981
\* and gyro[0] -2358.
C11_Layout ==
    /\ sizeof_ImuProt_t = 40
    /\ Validated =>
        /\ imuBuffer.header = buffer[0] + 256 * buffer[1]
        /\ imuBuffer.sequencer = buffer[2]
        /\ imuBuffer.ff_sequencer = buffer[3]
        /\ imuBuffer.data.mux =
               <<buffer[6] + 256 * buffer[7], buffer[4] + 256 * buffer[5]>>
        /\ imuBuffer.data.flags = buffer[8] + 256 * buffer[9]
        /\ imuBuffer.data.temperature = buffer[10] + 256 * buffer[11]
        /\ imuBuffer.data.temperature \in 0..65535
        /\ \A k \in 0..2 :
               /\ imuBuffer.data.gyro[k] = WireInt32(buffer, 12 + 4 * k)
               /\ imuBuffer.data.accl[k] = WireInt32(buffer, 24 + 4 * k)
               /\ buffer[15 + 4 * k] >= 128 => imuBuffer.data.gyro[k] < 0
               /\ buffer[27 + 4 * k] >= 128 => imuBuffer.data.accl[k] < 0
        /\ imuBuffer.crc32 = WireCrc(buffer)
        /\ Packet(buffer) = MainPacketBytes(1) =>
               /\ imuBuffer.data.temperature = \h7981
               /\ imuBuffer.data.gyro[0] = -2358

\* C11 witness: the first sample packet was read, gyro[0] negative.
C11_Witness ==
    /\ Validated
    /\ Packet(buffer) = MainPacketBytes(1)
    /\ imuBuffer.data.temperature = \h7981
    /\ imuBuffer.data.gyro[0] = -2358

\* C11, further case reached: a refused packet was read all the same, with an
\* accel sample that differs from the gyro sample of the same axis.
C11_CaseInvalid ==
    /\ Validated
    /\ result = IMU_PROT_BAD_CRC
    /\ imuBuffer.data.accl[2] # imuBuffer.data.gyro[2]
    /\ imuBuffer.data.accl[2] > 0

\* round((c + 273.15) * 100) for c given in 1/1000 degree, halves rounded up
RoundedCentiKelvin(c) == (c + 273150 + 5) \div 10

\* C12: tempToKelvin(c) returns round((c + 273.15) * 100), or 0 when that is
\* negative, and the value returned is within 0..65535.
C12_RoundedInRange ==
    tempPc = "done" =>
        /\ kelvin = IF RoundedCentiKelvin(celsius) < 0
                    THEN 0
                    ELSE RoundedCentiKelvin(celsius)
        /\ kelvin \in 0..65535

\* C12, what does hold: the statement for the arguments whose rounded result
\* fits 16 bits (c <= 382.204), and reached both at the clamp and at 65535.
C12_WhenItFits ==
    (tempPc = "done" /\ RoundedCentiKelvin(celsius) <= 65535) =>
        kelvin = IF RoundedCentiKelvin(celsius) < 0
                 THEN 0
                 ELSE RoundedCentiKelvin(celsius)

C12_CaseClamped ==
    tempPc = "done" /\ RoundedCentiKelvin(celsius) < 0 /\ kelvin = 0

C12_CaseLargest ==
    tempPc = "done" /\ kelvin = 65535 /\ RoundedCentiKelvin(celsius) = 65535

\* buf differs from old in exactly one bit, which lies in byte i
OneBitApart(buf, old, i) ==
    /\ Xor8(buf[i], old[i]) \in {1, 2, 4, 8, 16, 32, 64, 128}
    /\ \A j \in 0..39 : j # i => buf[j] = old[j]

\* the previous call accepted a packet and this call validated a packet
\* that differs from it in one bit of byte i
FlippedIn(i) ==
    /\ Validated
    /\ prev # NoPrev
    /\ prev.result = IMU_PROT_OK
    /\ OneBitApart(buffer, prev.buffer, i)

\* C13: a packet has 320 bits, and an accepted packet with any one of them
\* wrong is rejected: BAD_HEADER for a bit of bytes 0..1, BAD_SEQUENCER for a
\* bit of bytes 2..3, BAD_CRC for a bit of bytes 4..39.
C13_SingleBitFlip ==
    /\ 8 * sizeof_ImuProt_t = 320
    /\ \A i \in 0..39 :
        FlippedIn(i) =>
            /\ result # IMU_PROT_OK
            /\ i \in 0..1 => result = IMU_PROT_BAD_HEADER
            /\ i \in 2..3 => result = IMU_PROT_BAD_SEQUENCER
            /\ i \in 4..39 => result = IMU_PROT_BAD_CRC

C13_Witness == FlippedIn(3) /\ result = IMU_PROT_BAD_SEQUENCER

C13_CaseHeader == FlippedIn(1) /\ result = IMU_PROT_BAD_HEADER

C13_CaseSequencer == FlippedIn(2) /\ result = IMU_PROT_BAD_SEQUENCER

C13_CasePayload == FlippedIn(4) /\ result = IMU_PROT_BAD_CRC

\* the highest bit of the stored CRC
C13_CaseCrcField ==
    /\ FlippedIn(39)
    /\ Xor8(buffer[39], prev.buffer[39]) = 128
    /\ result = IMU_PROT_BAD_CRC

\* data is a whole packet with the header bytes 74 95 and a sequencer pair
\* of complements, and protCRC32 was applied to all of it
WholePacket ==
    /\ Size(data) = 40
    /\ len = 40
    /\ WireHeaderOk(data)
    /\ WireSequencerOk(data)

\* C14: CRC32_REMINDER, 0x2144DF1C, is what protCRC32 returns for any bytes m
\* followed by the four bytes of protCRC32(m), least significant first; and a
\* 40-byte packet with a good header and a good sequencer pair is accepted
\* exactly when protCRC32 over its 40 bytes is CRC32_REMINDER.
C14_Residue ==
    /\ CRC32_REMINDER = <<\h2144, \hDF1C>>
    /\ crcPc = "sealed" =>
        /\ crcResidue = CRC32_REMINDER
        /\ WholePacket => (crcVerdict = IMU_PROT_OK <=> crcTable = CRC32_REMINDER)

\* an accepted packet: its 40 bytes give the residue, and so do its first 17
\* bytes followed by their checksum
C14_Witness ==
    /\ crcPc = "sealed"
    /\ crcResidue = CRC32_REMINDER
    /\ Size(data) = 40
    /\ WireHeaderOk(data)
    /\ WireSequencerOk(data)
    /\ crcVerdict = IMU_PROT_OK
    /\ len = 17

C14_CaseAccepted ==
    /\ crcPc = "sealed"
    /\ WholePacket
    /\ crcVerdict = IMU_PROT_OK
    /\ crcTable = CRC32_REMINDER

C14_CaseBadCrc ==
    /\ crcPc = "sealed"
    /\ WholePacket
    /\ crcVerdict = IMU_PROT_BAD_CRC
    /\ crcTable # CRC32_REMINDER

C14_CaseEmpty ==
    /\ crcPc = "sealed"
    /\ len = 0
    /\ crcResidue = CRC32_REMINDER

====
